---- MODULE Spec2Model ----
(***************************************************************************)
(* Titan agent: the task orchestration engine.                             *)
(*                                                                         *)
(* One task record of the durable store, the queue job that carries it,    *)
(* the worker's processTask, the Orchestrator's run, and the Sandbox       *)
(* Manager (lookup table, containers, deferred-destroy timers, destroy     *)
(* calls in flight).  Every await of the source is a point where the other *)
(* activities (cancelTask from the HTTP API, timers, concurrent destroy    *)
(* calls, module shutdown) may run, so each action below is the code       *)
(* between two awaits.                                                     *)
(***************************************************************************)
EXTENDS Integers, Sequences, FiniteSets, TLC

(***************************************************************************)
(* Bounds of the model and constants of the program                        *)
(***************************************************************************)
\* queue.service.ts: defaultJobOptions.attempts
attempts == 3
\* sandbox-manager.service.ts: waitForServices(maxRetries = 30)
maxRetries == 30
\* Task lifecycle (Spec): attempts of the job the model follows (the queue
\* allows `attempts`) and the longest plan the planner's model returns
MaxAttempts == 2
MaxPlanLen == 2
\* Sandbox lifecycle (SpecSandbox): the same two bounds
SbxAttempts == 2
SbxPlanLen == 1
\* corrective steps the Critic's model returns in one run of the step loop
MaxSplices == 1
\* One run of the Orchestrator (SpecRun): plan length, splices
RunPlanLen == 2
RunSplices == 2
\* cancelTask calls from the HTTP API
MaxCancels == 1
\* Artifacts of a run (SpecArtifacts): plan length
ArtPlanLen == 2
\* Concurrent attempts (SpecEvents): addTaskEvent calls of each attempt
MaxAppends == 2
\* Event stream (SpecGateway): events persisted and broadcast
MaxBroadcasts == 2
\* Shell output (SpecShell): characters beyond the limit, length of the command
MaxExcess == 2
MaxCommandLen == 2
\* shell-server.js: const maxOutputLength = 10000
maxOutputLength == 10000

TaskId == "t1"
\* worker: sandboxId = `task-${taskId}`
SandboxIdOf(taskId) == "task-" \o taskId
SandboxIds == {SandboxIdOf(TaskId)}

\* ids the language model may put on a step; it is free to repeat them
PlannerIds == {"step-1", "step-2"}
CriticIds == {"correction-1", "step-1"}
\* ToolRegistry holds "shell" and "file_write" (of its five tools);
\* "bogus" is a name it does not hold
RegisteredTools == {"shell", "file_write"}
\* tool names the language model puts on the steps it returns
ToolNames == {"shell", "bogus"}
\* tools whose successful result carries artifacts (FileWriteTool.run)
ArtifactTools == {"file_write"}

TaskStatus == {"queued", "running", "succeeded", "failed", "cancelled"}
TerminalStatus == {"succeeded", "failed", "cancelled"}

ContainerIds == 1..attempts

VARIABLES
  \* ---- durable task record (tasks table row)
  status,        \* tasks.status
  metadata,      \* tasks.metadata.error ("" when no error was stored)
  plan,          \* tasks.plan: sequence of steps (<<>> also stands for NULL)
  events,        \* tasks.events: sequence of [type, step]
  artifacts,     \* tasks.artifacts: sequence of artifacts
  \* ---- queue job of the task
  jobState,      \* "waiting" | "active" | "completed" | "failed"
  attemptsMade,  \* processing attempts started so far
  \* ---- TaskWorker.processTask / OrchestratorService.run locals
  pc,            \* position of the worker
  sandboxId,     \* processTask's sandboxId: "" is null
  error,         \* the exception in flight ("" when none)
  newContainer,  \* create(): cleanContainerId (0 before docker run)
  currentPlan,   \* run(): currentPlan
  idx,           \* run(): loop index i (0-based)
  executedStep,  \* run(): executedStep
  splices,       \* corrective steps spliced in so far in this run
  enableCritic,  \* OrchestratorService.enableCritic
  \* ---- SandboxManagerService
  sandboxes,     \* lookup table: sandbox id -> container id (0: no entry)
  containers,    \* container runtime: container id -> state
  timers,        \* armed setTimeout callbacks, by the container they were armed for
  destroys,      \* destroy() calls: caller -> [pc, cid]
  shutdown,      \* onModuleDestroy has run
  \* ---- TasksService.cancelTask call from the HTTP API
  cancelPc,      \* "idle" | "write" (status read and accepted, UPDATE not yet sent)
  cancelCalls,   \* cancelTask calls made so far
  \* ---- TasksService.addTaskEvent calls of concurrent processing attempts
  eventCalls,    \* attempt -> [pc, read, done]: events read, UPDATE not yet sent
  \* ---- TasksGateway (WebSocket event stream)
  gateway,       \* [keys, subs, alive, persisted, emitted], see GatewayInit
  \* ---- one POST /execute of the sandbox's shell server and the ShellTool.run
  \*      that made it
  shell,         \* see IdleShell
  \* ---- history (observation only)
  stopRuns,      \* containers a destroy call has run docker stop on
  destroyCalls,  \* destroy() invocations by the worker in the current attempt
  outcome,       \* how the last attempt of the job ended: "" | "completed" | "failed"
  cancelled,     \* status the task had when a cancelTask call wrote cancelled ("" if none did)
  pickedUp       \* status the task had when the current attempt began ("" between attempts)

taskVars == <<status, metadata, plan, events, artifacts>>
jobVars == <<jobState, attemptsMade>>
runVars == <<currentPlan, idx, executedStep, splices>>
workerVars == <<pc, sandboxId, error, newContainer>>
sbxVars == <<sandboxes, containers, timers, destroys, shutdown>>
cancelVars == <<cancelPc, cancelCalls>>
obsVars == <<stopRuns, destroyCalls, outcome, cancelled, pickedUp>>
vars == <<taskVars, jobVars, runVars, workerVars, enableCritic,
          sbxVars, cancelVars, eventCalls, gateway, shell, obsVars>>

(***************************************************************************)
(* Data                                                                    *)
(***************************************************************************)
\* step.result: absent until the step was executed, then the ToolResult:
\* success, the error text ("" when there is none; of the texts a tool
\* or an exception can give, the model keeps one) and the number of
\* artifacts it carries
NoResult == [ran |-> FALSE, success |-> FALSE, error |-> "", artifacts |-> 0]

NoStep == [id |-> "", tool |-> "", required |-> TRUE, status |-> "pending",
           result |-> NoResult]

\* what the language model can return as one step: id "" is a step without
\* id, required TRUE also stands for an absent flag
RawPlannerSteps == [id : PlannerIds \cup {""}, tool : ToolNames, required : BOOLEAN]
\* what the Critic's model returns as one corrective step (nothing of it is
\* validated): a well-formed step under a fresh id, or a step that repeats an
\* id of the planner and names a tool the registry does not hold
RawCriticSteps ==
  {r \in [id : CriticIds, tool : ToolNames, required : {TRUE}] :
     r.id = "correction-1" <=> r.tool \in RegisteredTools}

SeqsUpTo(S, n) == UNION {[1..k -> S] : k \in 0..n}

\* an event of the log: its type and, from its payload, the step id and (for
\* step_completed) the status of the executed step
Event(type, step) == [type |-> type, step |-> step, status |-> ""]

Count(log, type) == Cardinality({k \in 1..Len(log) : log[k].type = type})

\* two processing attempts of the same job that run at the same time (the
\* second started by the queue while the first, taken for stalled, still runs)
\* and the first events processTask and run append in an attempt
Attempts == {"attempt-1", "attempt-2"}
AttemptEvents == <<"task_started", "sandbox_created", "planning_started">>
IdleEventCall == [pc |-> "idle", read |-> <<>>, done |-> 0]

\* the gateway's world: tasks with subscribers, WebSocket clients (socket ids;
\* a socket that disconnected never comes back under its id)
StreamTasks == {"t1", "t2"}
Clients == {"c1", "c2"}
\* taskSubscriptions: keys are the task ids the Map has an entry for, subs[t]
\* is the Set stored under key t ({} where there is no entry); alive: the
\* connected sockets; persisted[t]: UPDATEs of t's events executed so far;
\* awaited[a]: the event (task, position of its UPDATE) whose UPDATE call a has
\* executed and whose broadcast it has not made yet; emitted[c]: the
\* task_event messages sent to c, in order
GatewayInit ==
  [keys |-> {},
   subs |-> [t \in StreamTasks |-> {}],
   alive |-> Clients,
   persisted |-> [t \in StreamTasks |-> 0],
   awaited |-> [a \in Attempts |-> <<>>],
   emitted |-> [c \in Clients |-> <<>>]]

\* a text of the shell exchange: the first len characters of the text src
\* ("stdout" and "stderr" of the command, "message" of the exec error, "" for
\* the empty string), followed by the truncation marker when marked
Text(src, len) == [src |-> IF len = 0 THEN "" ELSE src, len |-> len, marked |-> FALSE]
EmptyText == Text("", 0)
\* lengths of what a command writes to one stream
OutputLengths ==
  {0, 1, maxOutputLength - 1, maxOutputLength}
    \cup {maxOutputLength + k : k \in 1..MaxExcess}
\* execAsync resolved, rejected with a non-zero exit code, or rejected after
\* the timeout killed the command
ExecOutcomes == {"success", "nonzero", "timeout"}
NoResponse == [success |-> FALSE, exitCode |-> 0, stdout |-> EmptyText, stderr |-> EmptyText]
NoToolResult == [success |-> FALSE, output |-> EmptyText, stderr |-> EmptyText]
IdleShell ==
  [pc |-> "idle", outcome |-> "", command |-> 0,
   stdout |-> EmptyText, stderr |-> EmptyText,
   res |-> NoResponse, tool |-> NoToolResult]

Callers == {<<"worker", 0>>, <<"shutdown", 0>>} \cup {<<"timer", g>> : g \in ContainerIds}
IdleCall == [pc |-> "idle", cid |-> 0, result |-> ""]
\* a destroy() call that has settled: "noop" (no entry, warning), "ok", or
\* "threw".  processTask and onModuleDestroy (through Promise.all) see how
\* their call settled; the rejection of a timer's call is caught and logged.
Settled(caller, result) ==
  [pc |-> "done", cid |-> 0,
   result |-> IF caller[1] \in {"worker", "shutdown"} THEN result ELSE ""]

Min(S) == CHOOSE x \in S : \A y \in S : x <= y

\* processTask is at position p, in a process that has not been shut down:
\* shutdown ends the database pool (DatabaseService.onModuleDestroy) and the
\* queue, and the model follows the worker no further
At(p) == pc = p /\ ~shutdown

Init ==
  /\ status = "queued"
  /\ metadata = ""
  /\ plan = <<>>
  /\ events = <<>>
  /\ artifacts = <<>>
  /\ jobState = "waiting"
  /\ attemptsMade = 0
  /\ pc = "idle"
  /\ sandboxId = ""
  /\ error = ""
  /\ newContainer = 0
  /\ currentPlan = <<>>
  /\ idx = 0
  /\ executedStep = NoStep
  /\ splices = 0
  /\ enableCritic = TRUE
  /\ sandboxes = [s \in SandboxIds |-> 0]
  /\ containers = [c \in ContainerIds |-> "none"]
  /\ timers = {}
  /\ destroys = [c \in Callers |-> IdleCall]
  /\ shutdown = FALSE
  /\ cancelPc = "idle"
  /\ cancelCalls = 0
  /\ eventCalls = [a \in Attempts |-> IdleEventCall]
  /\ gateway = GatewayInit
  /\ shell = IdleShell
  /\ stopRuns = {}
  /\ destroyCalls = 0
  /\ outcome = ""
  /\ cancelled = ""
  /\ pickedUp = ""

(***************************************************************************)
(* TasksService (api/tasks.service.ts)                                     *)
(***************************************************************************)
\* updateTaskStatus: UPDATE tasks SET status = $2 [, metadata = {error}] WHERE id = $1
\* The statement has no condition on the current status.
UpdateTaskStatus(s, err) ==
  /\ status' = s
  /\ metadata' = IF err # "" THEN err ELSE metadata

\* addTaskEvent: read the events, append one, write them back
AddTaskEvent(type, step) == events' = Append(events, Event(type, step))

\* addTaskArtifact: read the artifacts, append one, write them back.  Nothing
\* in the worker, the Orchestrator or the agents calls it.
AddTaskArtifact(artifact) == artifacts' = Append(artifacts, artifact)

\* addTaskEvent of one of several concurrent attempts, first query:
\* SELECT events FROM tasks WHERE id = $1
AddTaskEventRead(a, maxAppends) ==
  /\ eventCalls[a].pc = "idle"
  /\ eventCalls[a].done < maxAppends
  /\ eventCalls' = [eventCalls EXCEPT ![a].pc = "write", ![a].read = events]
  /\ UNCHANGED <<taskVars, jobVars, runVars, workerVars, enableCritic, sbxVars,
                 cancelVars, obsVars, gateway, shell>>

\* addTaskEvent, second query: events = [...read, event]; UPDATE tasks SET
\* events = ARRAY[...] WHERE id = $1
AddTaskEventWrite(a) ==
  /\ eventCalls[a].pc = "write"
  /\ events' = Append(eventCalls[a].read,
                      Event(AttemptEvents[eventCalls[a].done + 1], ""))
  /\ eventCalls' = [eventCalls EXCEPT ![a].pc = "idle", ![a].read = <<>>,
                                      ![a].done = eventCalls[a].done + 1]
  /\ UNCHANGED <<status, metadata, plan, artifacts, jobVars, runVars,
                 workerVars, enableCritic, sbxVars, cancelVars, obsVars,
                 gateway, shell>>

\* updateTaskPlan: UPDATE tasks SET plan = $1
UpdateTaskPlan(p) == plan' = p

\* plan.findIndex((s) => s.id === stepId), 1-based, 0 for -1
FindIndex(p, id) ==
  IF \E k \in 1..Len(p) : p[k].id = id
    THEN Min({k \in 1..Len(p) : p[k].id = id})
    ELSE 0

\* updateStep: plan[stepIndex] = {...plan[stepIndex], ...result}; result is the
\* executed step, which carries every field of a step
UpdatedPlan(p, id, result) == [p EXCEPT ![FindIndex(p, id)] = result]

\* cancelTask, first query: SELECT status; the call is refused unless the
\* status read is running or queued
CancelRead(maxCancels) ==
  /\ cancelPc = "idle"
  /\ cancelCalls < maxCancels
  /\ cancelCalls' = cancelCalls + 1
  /\ cancelPc' = IF status \in {"running", "queued"} THEN "write" ELSE "idle"
  /\ UNCHANGED <<taskVars, jobVars, runVars, workerVars, enableCritic, sbxVars,
                 obsVars, eventCalls, gateway, shell>>

\* cancelTask, second query: updateTaskStatus(taskId, 'cancelled')
CancelWrite ==
  /\ cancelPc = "write"
  /\ cancelPc' = "idle"
  /\ UpdateTaskStatus("cancelled", "")
  /\ cancelled' = status
  /\ UNCHANGED <<plan, events, jobVars, runVars, workerVars, enableCritic,
                 sbxVars, cancelCalls, stopRuns, destroyCalls, outcome,
                 artifacts, pickedUp, eventCalls, gateway, shell>>

(***************************************************************************)
(* SandboxManagerService (core/sandbox/sandbox-manager.service.ts)         *)
(***************************************************************************)
Live(c) == containers[c] \in {"running", "stopped"}

\* the container id docker run hands out next
FreshContainer == Min({c \in ContainerIds : containers[c] = "none"})

\* destroy(sandboxId) up to its first await: look the sandbox up; without an
\* entry warn and return, otherwise go on to docker stop of its container
DestroyBegin(caller, id) ==
  destroys' = [destroys EXCEPT ![caller] =
                 IF sandboxes[id] = 0
                   THEN Settled(caller, "noop")
                   ELSE [pc |-> "stop", cid |-> sandboxes[id], result |-> ""]]

\* docker stop <containerId>: fails when the container is gone; may fail (or
\* exceed its 10 s budget) otherwise.  A failure makes destroy throw.
DestroyStop(caller) ==
  /\ destroys[caller].pc = "stop"
  /\ LET c == destroys[caller].cid IN
       /\ stopRuns' = stopRuns \cup {c}
       /\ \E ok \in {b \in BOOLEAN : b => Live(c)} :
            IF ok
              THEN /\ containers' = [containers EXCEPT ![c] = "stopped"]
                   /\ destroys' = [destroys EXCEPT ![caller].pc = "rm"]
              ELSE /\ containers' = containers
                   /\ destroys' = [destroys EXCEPT ![caller] = Settled(caller, "threw")]
  /\ UNCHANGED <<taskVars, jobVars, runVars, workerVars, enableCritic,
                 sandboxes, timers, shutdown, cancelVars, destroyCalls,
                 outcome, cancelled, pickedUp, eventCalls, gateway, shell>>

\* docker rm <containerId>, then this.sandboxes.delete(sandboxId); a failing
\* docker rm makes destroy throw before the delete
DestroyRm(caller) ==
  /\ destroys[caller].pc = "rm"
  /\ LET c == destroys[caller].cid IN
       \E ok \in {b \in BOOLEAN : b => Live(c)} :
         IF ok
           THEN /\ containers' = [containers EXCEPT ![c] = "removed"]
                /\ sandboxes' = [sandboxes EXCEPT ![SandboxIdOf(TaskId)] = 0]
                /\ destroys' = [destroys EXCEPT ![caller] = Settled(caller, "ok")]
           ELSE /\ containers' = containers
                /\ sandboxes' = sandboxes
                /\ destroys' = [destroys EXCEPT ![caller] = Settled(caller, "threw")]
  /\ UNCHANGED <<taskVars, jobVars, runVars, workerVars, enableCritic, timers,
                 shutdown, cancelVars, obsVars, eventCalls, gateway, shell>>

\* the setTimeout callback armed by create: this.destroy(sandboxId).catch(log).
\* Timers are armed with the same delay, so they fire in the order armed.
TimerFire ==
  /\ ~shutdown
  /\ timers # {}
  /\ LET g == Min(timers) IN
       /\ timers' = timers \ {g}
       /\ DestroyBegin(<<"timer", g>>, SandboxIdOf(TaskId))
  /\ UNCHANGED <<taskVars, jobVars, runVars, workerVars, enableCritic,
                 sandboxes, containers, shutdown, cancelVars, obsVars,
                 eventCalls, gateway, shell>>

\* onModuleDestroy: Promise.all(sandboxIds.map((id) => this.destroy(id)))
OnModuleDestroy ==
  /\ ~shutdown
  /\ shutdown' = TRUE
  /\ IF sandboxes[SandboxIdOf(TaskId)] # 0
       THEN DestroyBegin(<<"shutdown", 0>>, SandboxIdOf(TaskId))
       ELSE destroys' = destroys
  /\ UNCHANGED <<taskVars, jobVars, runVars, workerVars, enableCritic,
                 sandboxes, containers, timers, cancelVars, obsVars,
                 eventCalls, gateway, shell>>

(***************************************************************************)
(* SandboxManagerService.create, as called by the worker                   *)
(***************************************************************************)
\* an exception reaches the catch block of processTask (create's own catch
\* logs and rethrows)
WorkerThrow(msg) ==
  /\ pc' = "workerCatch"
  /\ error' = msg

\* docker image inspect, the reaping of a container left under the same name
\* (errors ignored), and docker run -d --name sandbox-<id>.  docker run fails
\* when a container of that name is still there; it may fail anyway.
CreateRun ==
  /\ At("createRun")
  /\ \E reaped \in BOOLEAN, ran \in BOOLEAN :
       LET old == {c \in ContainerIds : Live(c)}
           afterReap == [c \in ContainerIds |->
                           IF reaped /\ c \in old THEN "removed" ELSE containers[c]]
           conflict == \E c \in ContainerIds : afterReap[c] \in {"running", "stopped"}
       IN  /\ (old = {}) => reaped
           /\ conflict => ~ran
           /\ IF ran
                THEN /\ containers' = [afterReap EXCEPT ![FreshContainer] = "running"]
                     /\ newContainer' = FreshContainer
                     /\ pc' = "createPorts"
                     /\ error' = error
                ELSE /\ containers' = afterReap
                     /\ newContainer' = newContainer
                     /\ WorkerThrow("docker run failed")
  /\ UNCHANGED <<taskVars, jobVars, runVars, sandboxId, enableCritic,
                 sandboxes, timers, destroys, shutdown, cancelVars, obsVars,
                 eventCalls, gateway, shell>>

\* docker port <containerId> and extractPort for 3001, 3002, 3003
CreatePorts ==
  /\ At("createPorts")
  /\ \E mapped \in BOOLEAN :
       IF mapped
         THEN pc' = "createWait" /\ error' = error
         ELSE WorkerThrow("Failed to get mapped ports")
  /\ UNCHANGED <<taskVars, jobVars, runVars, sandboxId, newContainer,
                 enableCritic, sbxVars, cancelVars, obsVars, eventCalls,
                 gateway, shell>>

\* waitForServices: up to maxRetries rounds of health probes, failed of them
\* failing before one passes; then this.sandboxes.set and setTimeout
CreateWait ==
  /\ At("createWait")
  /\ \E failed \in 0..maxRetries :
       IF failed < maxRetries
         THEN /\ sandboxes' = [sandboxes EXCEPT ![SandboxIdOf(TaskId)] = newContainer]
              /\ timers' = timers \cup {newContainer}
              /\ pc' = "evSandboxCreated"
              /\ error' = error
         ELSE /\ sandboxes' = sandboxes
              /\ timers' = timers
              /\ WorkerThrow("Sandbox services failed to start in time")
  /\ UNCHANGED <<taskVars, jobVars, runVars, sandboxId, newContainer,
                 enableCritic, containers, destroys, shutdown, cancelVars,
                 obsVars, eventCalls, gateway, shell>>

(***************************************************************************)
(* TaskWorker.processTask (infrastructure/queue/task.worker.ts)            *)
(***************************************************************************)
\* the queue hands the job to the processor
WorkerStart(maxAttempts) ==
  /\ jobState = "waiting"
  /\ At("idle")
  /\ attemptsMade < maxAttempts
  /\ jobState' = "active"
  /\ attemptsMade' = attemptsMade + 1
  /\ pc' = "setRunning"
  /\ destroyCalls' = 0
  /\ outcome' = ""
  /\ destroys' = [destroys EXCEPT ![<<"worker", 0>>] = IdleCall]
  /\ pickedUp' = status
  /\ UNCHANGED <<taskVars, runVars, sandboxId, error, newContainer,
                 enableCritic, sandboxes, containers, timers, shutdown,
                 cancelVars, stopRuns, cancelled, eventCalls, gateway, shell>>

\* messages of the error a rejected query carries: a text, or none (an
\* AggregateError of a refused connection has the message "")
QueryErrors == {"query failed", ""}

\* await this.tasksService.updateTaskStatus(taskId, 'running'): the first
\* statement of the try block; when the query rejects, the catch block is
\* entered with sandboxId still null
SetRunning ==
  /\ At("setRunning")
  /\ \E stored \in BOOLEAN, msg \in QueryErrors :
       IF stored
         THEN /\ UpdateTaskStatus("running", "")
              /\ pc' = "evTaskStarted"
              /\ error' = error
         ELSE /\ UNCHANGED <<status, metadata>>
              /\ WorkerThrow(msg)
  /\ UNCHANGED <<plan, events, jobVars, runVars, sandboxId, newContainer,
                 enableCritic, sbxVars, cancelVars, obsVars, artifacts,
                 eventCalls, gateway, shell>>

\* addTaskEvent(task_started); sandboxId = `task-${taskId}`; create() begins
EvTaskStarted ==
  /\ At("evTaskStarted")
  /\ AddTaskEvent("task_started", "")
  /\ sandboxId' = SandboxIdOf(TaskId)
  /\ pc' = "createRun"
  /\ UNCHANGED <<status, metadata, plan, jobVars, runVars, error, newContainer,
                 enableCritic, sbxVars, cancelVars, obsVars, artifacts,
                 eventCalls, gateway, shell>>

\* addTaskEvent(sandbox_created); orchestrator.run begins
EvSandboxCreated ==
  /\ At("evSandboxCreated")
  /\ AddTaskEvent("sandbox_created", "")
  /\ pc' = "evPlanningStarted"
  /\ UNCHANGED <<status, metadata, plan, jobVars, runVars, sandboxId, error,
                 newContainer, enableCritic, sbxVars, cancelVars, obsVars,
                 artifacts, eventCalls, gateway, shell>>

\* run returned: updateTaskStatus(taskId, 'succeeded')
SetSucceeded ==
  /\ At("setSucceeded")
  /\ UpdateTaskStatus("succeeded", "")
  /\ pc' = "evTaskCompleted"
  /\ UNCHANGED <<plan, events, jobVars, runVars, sandboxId, error,
                 newContainer, enableCritic, sbxVars, cancelVars, obsVars,
                 artifacts, eventCalls, gateway, shell>>

\* addTaskEvent(task_completed); the try block ends normally
EvTaskCompleted ==
  /\ At("evTaskCompleted")
  /\ AddTaskEvent("task_completed", "")
  /\ outcome' = "completed"
  /\ pc' = "finally"
  /\ UNCHANGED <<status, metadata, plan, jobVars, runVars, sandboxId, error,
                 newContainer, enableCritic, sbxVars, cancelVars, stopRuns,
                 destroyCalls, cancelled, artifacts, pickedUp, eventCalls,
                 gateway, shell>>

\* WorkerCatch storing the status without the message of the exception
WorkerCatchNoMessage ==
  /\ At("workerCatch")
  /\ UpdateTaskStatus("failed", "")
  /\ pc' = "evTaskFailed"
  /\ UNCHANGED <<plan, events, jobVars, runVars, sandboxId, error,
                 newContainer, enableCritic, sbxVars, cancelVars, obsVars,
                 artifacts, eventCalls, gateway, shell>>

\* catch: updateTaskStatus(taskId, 'failed', errorMessage)
WorkerCatch ==
  /\ At("workerCatch")
  /\ UpdateTaskStatus("failed", error)
  /\ pc' = "evTaskFailed"
  /\ UNCHANGED <<plan, events, jobVars, runVars, sandboxId, error,
                 newContainer, enableCritic, sbxVars, cancelVars, obsVars,
                 artifacts, eventCalls, gateway, shell>>

\* catch: addTaskEvent(task_failed); throw error
EvTaskFailed ==
  /\ At("evTaskFailed")
  /\ AddTaskEvent("task_failed", "")
  /\ outcome' = "failed"
  /\ pc' = "finally"
  /\ UNCHANGED <<status, metadata, plan, jobVars, runVars, sandboxId, error,
                 newContainer, enableCritic, sbxVars, cancelVars, stopRuns,
                 destroyCalls, cancelled, artifacts, pickedUp, eventCalls,
                 gateway, shell>>

\* finally: if (sandboxId) { try { await this.sandboxManager.destroy(sandboxId) }
FinallyDestroy ==
  /\ At("finally")
  /\ IF sandboxId # ""
       THEN /\ DestroyBegin(<<"worker", 0>>, sandboxId)
            /\ destroyCalls' = destroyCalls + 1
            /\ pc' = "awaitDestroy"
       ELSE /\ destroys' = destroys
            /\ destroyCalls' = destroyCalls
            /\ pc' = "finish"
  /\ UNCHANGED <<taskVars, jobVars, runVars, sandboxId, error, newContainer,
                 enableCritic, sandboxes, containers, timers, shutdown,
                 cancelVars, stopRuns, outcome, cancelled, pickedUp,
                 eventCalls, gateway, shell>>

\* AwaitDestroy without the try/catch around the destroy call in the finally
\* block: a rejected destroy replaces the outcome of processTask
AwaitDestroyUncaught ==
  /\ At("awaitDestroy")
  /\ destroys[<<"worker", 0>>].pc = "done"
  /\ pc' = "finish"
  /\ outcome' = IF destroys[<<"worker", 0>>].result = "threw" THEN "failed" ELSE outcome
  /\ UNCHANGED <<taskVars, jobVars, runVars, sandboxId, error, newContainer,
                 enableCritic, sbxVars, cancelVars, stopRuns, destroyCalls,
                 cancelled, pickedUp, eventCalls, gateway, shell>>

\* ... catch (error) { this.logger.error(...) } }: the destroy call has
\* settled; a rejection is logged and goes no further
AwaitDestroy ==
  /\ At("awaitDestroy")
  /\ destroys[<<"worker", 0>>].pc = "done"
  /\ pc' = "finish"
  /\ UNCHANGED <<taskVars, jobVars, runVars, sandboxId, error, newContainer,
                 enableCritic, sbxVars, cancelVars, obsVars, eventCalls,
                 gateway, shell>>

\* processTask settles: the job completes, or it fails and the queue retries
\* it while attempts are left
WorkerFinish ==
  /\ At("finish")
  /\ pc' = "idle"
  /\ jobState' = IF outcome = "completed" THEN "completed"
                 ELSE IF attemptsMade < attempts THEN "waiting" ELSE "failed"
  /\ sandboxId' = ""
  /\ error' = ""
  /\ newContainer' = 0
  /\ currentPlan' = <<>>
  /\ idx' = 0
  /\ executedStep' = NoStep
  /\ splices' = 0
  /\ pickedUp' = ""
  /\ UNCHANGED <<taskVars, attemptsMade, enableCritic, sbxVars, cancelVars,
                 stopRuns, destroyCalls, outcome, cancelled, eventCalls,
                 gateway, shell>>

(***************************************************************************)
(* PlannerAgent, ExecutorAgent, CriticAgent (core/agent)                   *)
(***************************************************************************)
\* generatePlan's validation loop: every step carries id and tool (description
\* and arguments go with the id in the model) and its tool is registered
PlannerAccepts(raw) ==
  \A k \in 1..Len(raw) : raw[k].id # "" /\ raw[k].tool \in RegisteredTools

\* step.status = 'pending'; step.required = step.required !== false
WithDefaults(raw) ==
  [k \in 1..Len(raw) |->
     [id |-> raw[k].id, tool |-> raw[k].tool, required |-> raw[k].required,
      status |-> "pending", result |-> NoResult]]

\* what tool.run does: resolve with success true, resolve with success false
\* (every registered tool then sets an error text), or reject
HandlerOutcomes == {"success", "failure", "throws"}

\* executeStep that marks the step completed whenever the handler resolved,
\* without looking at result.success
ExecuteStepResolvedIsCompleted(step, handler) ==
  IF step.tool \notin RegisteredTools
    THEN [step EXCEPT !.status = "failed",
                      !.result = [ran |-> TRUE, success |-> FALSE,
                                  error |-> "Tool not found", artifacts |-> 0]]
  ELSE IF handler = "success"
    THEN [step EXCEPT !.status = "completed",
                      !.result = [ran |-> TRUE, success |-> TRUE, error |-> "",
                                  artifacts |-> IF step.tool \in ArtifactTools
                                                  THEN 1 ELSE 0]]
  ELSE IF handler = "failure"
    THEN [step EXCEPT !.status = "completed",
                      !.result = [ran |-> TRUE, success |-> FALSE,
                                  error |-> "error text", artifacts |-> 0]]
  ELSE [step EXCEPT !.status = "failed",
                    !.result = [ran |-> TRUE, success |-> FALSE,
                                error |-> "error text", artifacts |-> 0]]

\* executeStep: an unknown tool fails the step; otherwise the handler's result
\* decides, and a rejection is caught and recorded as a failure
ExecuteStep(step, handler) ==
  IF step.tool \notin RegisteredTools
    THEN [step EXCEPT !.status = "failed",
                      !.result = [ran |-> TRUE, success |-> FALSE,
                                  error |-> "Tool not found", artifacts |-> 0]]
  ELSE IF handler = "success"
    THEN [step EXCEPT !.status = "completed",
                      !.result = [ran |-> TRUE, success |-> TRUE, error |-> "",
                                  artifacts |-> IF step.tool \in ArtifactTools
                                                  THEN 1 ELSE 0]]
  ELSE IF handler = "failure"
    THEN [step EXCEPT !.status = "failed",
                      !.result = [ran |-> TRUE, success |-> FALSE,
                                  error |-> "error text", artifacts |-> 0]]
  ELSE [step EXCEPT !.status = "failed",
                    !.result = [ran |-> TRUE, success |-> FALSE,
                                error |-> "error text", artifacts |-> 0]]

\* currentPlan.splice(i, 0, ...corrections): the corrections put in front of
\* the current step instead of behind it
SpliceBeforeCurrent(p, i, cs) ==
  [k \in 1..(Len(p) + Len(cs)) |->
     IF k <= i THEN p[k]
     ELSE IF k <= i + Len(cs) THEN cs[k - i]
     ELSE p[k - Len(cs)]]

\* currentPlan.splice(i + 1, 0, ...corrections), i 0-based
Splice(p, i, cs) ==
  [k \in 1..(Len(p) + Len(cs)) |->
     IF k <= i + 1 THEN p[k]
     ELSE IF k <= i + 1 + Len(cs) THEN cs[k - (i + 1)]
     ELSE p[k - Len(cs)]]

(***************************************************************************)
(* OrchestratorService.run (core/agent/orchestrator.service.ts)            *)
(***************************************************************************)
\* an exception inside run's try block reaches run's catch
OrchThrow(msg) ==
  /\ pc' = "orchCatch"
  /\ error' = msg

\* addTaskEvent(planning_started)
EvPlanningStarted ==
  /\ At("evPlanningStarted")
  /\ AddTaskEvent("planning_started", "")
  /\ pc' = "generatePlan"
  /\ UNCHANGED <<status, metadata, plan, jobVars, runVars, sandboxId, error,
                 newContainer, enableCritic, sbxVars, cancelVars, obsVars,
                 artifacts, eventCalls, gateway, shell>>

\* plannerAgent.generatePlan: the model's call fails, or its answer is parsed
\* and validated
GeneratePlan(maxLen) ==
  /\ At("generatePlan")
  /\ \/ /\ OrchThrow("Plan generation failed")
        /\ currentPlan' = currentPlan
     \/ \E raw \in SeqsUpTo(RawPlannerSteps, maxLen) :
          IF PlannerAccepts(raw)
            THEN /\ currentPlan' = WithDefaults(raw)
                 /\ pc' = "updateTaskPlan"
                 /\ error' = error
            ELSE /\ OrchThrow("Plan generation failed")
                 /\ currentPlan' = currentPlan
  /\ UNCHANGED <<taskVars, jobVars, idx, executedStep, splices, sandboxId,
                 newContainer, enableCritic, sbxVars, cancelVars, obsVars,
                 eventCalls, gateway, shell>>

\* updateTaskPlan(taskId, plan)
StorePlan ==
  /\ At("updateTaskPlan")
  /\ UpdateTaskPlan(currentPlan)
  /\ pc' = "evPlanGenerated"
  /\ UNCHANGED <<status, metadata, events, jobVars, runVars, sandboxId, error,
                 newContainer, enableCritic, sbxVars, cancelVars, obsVars,
                 artifacts, eventCalls, gateway, shell>>

\* addTaskEvent(plan_generated)
EvPlanGenerated ==
  /\ At("evPlanGenerated")
  /\ AddTaskEvent("plan_generated", "")
  /\ pc' = "evExecutionStarted"
  /\ UNCHANGED <<status, metadata, plan, jobVars, runVars, sandboxId, error,
                 newContainer, enableCritic, sbxVars, cancelVars, obsVars,
                 artifacts, eventCalls, gateway, shell>>

\* addTaskEvent(execution_started); currentPlan = [...plan]; i = 0
EvExecutionStarted ==
  /\ At("evExecutionStarted")
  /\ AddTaskEvent("execution_started", "")
  /\ idx' = 0
  /\ pc' = "loop"
  /\ UNCHANGED <<status, metadata, plan, jobVars, currentPlan, executedStep,
                 splices, sandboxId, error, newContainer, enableCritic,
                 sbxVars, cancelVars, obsVars, artifacts, eventCalls, gateway, shell>>

\* LoopHead that hands the step to the Executor without appending
\* step_started first
LoopHeadSilent ==
  /\ At("loop")
  /\ events' = events
  /\ pc' = IF idx < Len(currentPlan) THEN "executeStep" ELSE "final"
  /\ UNCHANGED <<status, metadata, plan, jobVars, runVars, sandboxId, error,
                 newContainer, enableCritic, sbxVars, cancelVars, obsVars,
                 artifacts, eventCalls, gateway, shell>>

\* for (i < currentPlan.length): addTaskEvent(step_started); past the last
\* step the loop is left
LoopHead ==
  /\ At("loop")
  /\ IF idx < Len(currentPlan)
       THEN /\ AddTaskEvent("step_started", currentPlan[idx + 1].id)
            /\ pc' = "executeStep"
       ELSE /\ events' = events
            /\ pc' = "final"
  /\ UNCHANGED <<status, metadata, plan, jobVars, runVars, sandboxId, error,
                 newContainer, enableCritic, sbxVars, cancelVars, obsVars,
                 artifacts, eventCalls, gateway, shell>>

\* RunStep with an executeStep that has no try/catch around tool.run: a
\* rejecting handler throws into run
RunStepUncaught ==
  /\ At("executeStep")
  /\ \E handler \in HandlerOutcomes :
       IF handler = "throws" /\ currentPlan[idx + 1].tool \in RegisteredTools
         THEN /\ executedStep' = executedStep
              /\ OrchThrow("error text")
         ELSE /\ executedStep' = ExecuteStep(currentPlan[idx + 1], handler)
              /\ pc' = "updateStep"
              /\ error' = error
  /\ UNCHANGED <<taskVars, jobVars, currentPlan, idx, splices, sandboxId,
                 newContainer, enableCritic, sbxVars, cancelVars, obsVars,
                 eventCalls, gateway, shell>>

\* executedStep = await executorAgent.executeStep(step, toolContext)
RunStep ==
  /\ At("executeStep")
  /\ \E handler \in HandlerOutcomes :
       executedStep' = ExecuteStep(currentPlan[idx + 1], handler)
  /\ pc' = "updateStep"
  /\ UNCHANGED <<taskVars, jobVars, currentPlan, idx, splices, sandboxId,
                 error, newContainer, enableCritic, sbxVars, cancelVars,
                 obsVars, eventCalls, gateway, shell>>

\* updateStep(taskId, step.id, executedStep): NotFoundException when the
\* stored plan has no step of that id
StoreStep ==
  /\ At("updateStep")
  /\ IF FindIndex(plan, executedStep.id) = 0
       THEN /\ OrchThrow("Step not found in task plan")
            /\ plan' = plan
       ELSE /\ plan' = UpdatedPlan(plan, executedStep.id, executedStep)
            /\ pc' = "evStepCompleted"
            /\ error' = error
  /\ UNCHANGED <<status, metadata, events, jobVars, runVars, sandboxId,
                 newContainer, enableCritic, sbxVars, cancelVars, obsVars,
                 artifacts, eventCalls, gateway, shell>>

\* EvStepCompleted without the test of enableCritic: the critic block is
\* always entered
EvStepCompletedAlwaysCritic ==
  /\ At("evStepCompleted")
  /\ events' = Append(events, [type |-> "step_completed", step |-> executedStep.id,
                                status |-> executedStep.status])
  /\ pc' = "evaluate"
  /\ UNCHANGED <<status, metadata, plan, jobVars, runVars, sandboxId, error,
                 newContainer, enableCritic, sbxVars, cancelVars, obsVars,
                 artifacts, eventCalls, gateway, shell>>

\* addTaskEvent(step_completed); if (this.enableCritic) ...
EvStepCompleted ==
  /\ At("evStepCompleted")
  /\ events' = Append(events, [type |-> "step_completed", step |-> executedStep.id,
                                status |-> executedStep.status])
  /\ pc' = IF enableCritic THEN "evaluate" ELSE "checkRequired"
  /\ UNCHANGED <<status, metadata, plan, jobVars, runVars, sandboxId, error,
                 newContainer, enableCritic, sbxVars, cancelVars, obsVars,
                 artifacts, eventCalls, gateway, shell>>

\* executionHistory = currentPlan.filter(s => s.status !== 'pending'), the
\* history handed to criticAgent.evaluate
ExecutionHistory == SelectSeq(currentPlan, LAMBDA s : s.status # "pending")

\* Evaluate without the try/catch around the critic block: what is no
\* evaluation reaches run's catch
EvaluateUncaught ==
  /\ At("evaluate")
  /\ \E verdict \in {"onTrack", "unsure", "offTrack", "garbage"} :
       IF verdict = "garbage"
         THEN OrchThrow("critic failed")
         ELSE /\ pc' = IF verdict = "offTrack" THEN "evCriticEvaluation"
                                               ELSE "checkRequired"
              /\ error' = error
  /\ UNCHANGED <<taskVars, jobVars, runVars, sandboxId, newContainer,
                 enableCritic, sbxVars, cancelVars, obsVars, eventCalls,
                 gateway, shell>>

\* criticAgent.evaluate and the test on its verdict.  evaluate answers on
\* track (also its fallback when the model's call fails), off track with a
\* confidence below the threshold, off track above it, or something that is
\* no evaluation (reading evaluation.issues throws into the critic's catch).
Evaluate ==
  /\ At("evaluate")
  /\ \E verdict \in {"onTrack", "unsure", "offTrack", "garbage"} :
       pc' = IF verdict = "offTrack" THEN "evCriticEvaluation" ELSE "checkRequired"
  /\ UNCHANGED <<taskVars, jobVars, runVars, sandboxId, error, newContainer,
                 enableCritic, sbxVars, cancelVars, obsVars, eventCalls,
                 gateway, shell>>

\* addTaskEvent(critic_evaluation)
EvCriticEvaluation ==
  /\ At("evCriticEvaluation")
  /\ AddTaskEvent("critic_evaluation", executedStep.id)
  /\ pc' = "generateCorrection"
  /\ UNCHANGED <<status, metadata, plan, jobVars, runVars, sandboxId, error,
                 newContainer, enableCritic, sbxVars, cancelVars, obsVars,
                 artifacts, eventCalls, gateway, shell>>

\* criticAgent.generateCorrection: [] when the model's call or the parse
\* fails, else the parsed steps with defaults set and nothing validated;
\* a non-empty answer is spliced in after the current step
GenerateCorrection(maxSplices) ==
  /\ At("generateCorrection")
  /\ \E raw \in SeqsUpTo(RawCriticSteps, maxSplices - splices) :
       IF Len(raw) > 0
         THEN /\ currentPlan' = Splice(currentPlan, idx, WithDefaults(raw))
              /\ splices' = splices + Len(raw)
              /\ pc' = "updateRevisedPlan"
         ELSE /\ currentPlan' = currentPlan
              /\ splices' = splices
              /\ pc' = "checkRequired"
  /\ UNCHANGED <<taskVars, jobVars, idx, executedStep, sandboxId, error,
                 newContainer, enableCritic, sbxVars, cancelVars, obsVars,
                 eventCalls, gateway, shell>>

\* updateTaskPlan(taskId, currentPlan)
StoreRevisedPlan ==
  /\ At("updateRevisedPlan")
  /\ UpdateTaskPlan(currentPlan)
  /\ pc' = "evCorrectionApplied"
  /\ UNCHANGED <<status, metadata, events, jobVars, runVars, sandboxId, error,
                 newContainer, enableCritic, sbxVars, cancelVars, obsVars,
                 artifacts, eventCalls, gateway, shell>>

\* addTaskEvent(correction_applied)
EvCorrectionApplied ==
  /\ At("evCorrectionApplied")
  /\ AddTaskEvent("correction_applied", executedStep.id)
  /\ pc' = "checkRequired"
  /\ UNCHANGED <<status, metadata, plan, jobVars, runVars, sandboxId, error,
                 newContainer, enableCritic, sbxVars, cancelVars, obsVars,
                 artifacts, eventCalls, gateway, shell>>

\* CheckRequired without the test of the required flag: any failure stops
CheckRequiredAnyFailure ==
  /\ At("checkRequired")
  /\ IF executedStep.status = "failed"
       THEN /\ AddTaskEvent("execution_stopped", executedStep.id)
            /\ idx' = idx
            /\ pc' = "final"
       ELSE /\ events' = events
            /\ idx' = idx + 1
            /\ pc' = "loop"
  /\ UNCHANGED <<status, metadata, plan, jobVars, currentPlan, executedStep,
                 splices, sandboxId, error, newContainer, enableCritic,
                 sbxVars, cancelVars, obsVars, artifacts, eventCalls, gateway, shell>>

\* CheckRequired testing the status of the in-memory step (never updated)
\* instead of executedStep's
CheckRequiredOnPlanStep ==
  /\ At("checkRequired")
  /\ IF currentPlan[idx + 1].status = "failed" /\ currentPlan[idx + 1].required
       THEN /\ AddTaskEvent("execution_stopped", executedStep.id)
            /\ idx' = idx
            /\ pc' = "final"
       ELSE /\ events' = events
            /\ idx' = idx + 1
            /\ pc' = "loop"
  /\ UNCHANGED <<status, metadata, plan, jobVars, currentPlan, executedStep,
                 splices, sandboxId, error, newContainer, enableCritic,
                 sbxVars, cancelVars, obsVars, artifacts, eventCalls, gateway, shell>>

\* if (executedStep.status === 'failed' && step.required !== false)
\*   { addTaskEvent(execution_stopped); break }   else i++
CheckRequired ==
  /\ At("checkRequired")
  /\ IF executedStep.status = "failed" /\ currentPlan[idx + 1].required
       THEN /\ AddTaskEvent("execution_stopped", executedStep.id)
            /\ idx' = idx
            /\ pc' = "final"
       ELSE /\ events' = events
            /\ idx' = idx + 1
            /\ pc' = "loop"
  /\ UNCHANGED <<status, metadata, plan, jobVars, currentPlan, executedStep,
                 splices, sandboxId, error, newContainer, enableCritic,
                 sbxVars, cancelVars, obsVars, artifacts, eventCalls, gateway, shell>>

\* Finalize deciding from run's in-memory currentPlan instead of the plan read
\* back with getTask
FinalizeFromMemory ==
  /\ At("final")
  /\ IF \A k \in 1..Len(currentPlan) : currentPlan[k].status = "completed"
       THEN AddTaskEvent("task_succeeded", "")
       ELSE AddTaskEvent("task_completed_with_failures", "")
  /\ pc' = "setSucceeded"
  /\ UNCHANGED <<status, metadata, plan, jobVars, runVars, sandboxId, error,
                 newContainer, enableCritic, sbxVars, cancelVars, obsVars,
                 artifacts, eventCalls, gateway, shell>>

\* task = getTask(); task.plan?.every(completed) decides the closing event
Finalize ==
  /\ At("final")
  /\ IF \A k \in 1..Len(plan) : plan[k].status = "completed"
       THEN AddTaskEvent("task_succeeded", "")
       ELSE AddTaskEvent("task_completed_with_failures", "")
  /\ pc' = "setSucceeded"
  /\ UNCHANGED <<status, metadata, plan, jobVars, runVars, sandboxId, error,
                 newContainer, enableCritic, sbxVars, cancelVars, obsVars,
                 artifacts, eventCalls, gateway, shell>>

\* catch: addTaskEvent(orchestration_failed); throw error
OrchCatch ==
  /\ At("orchCatch")
  /\ AddTaskEvent("orchestration_failed", "")
  /\ pc' = "workerCatch"
  /\ UNCHANGED <<status, metadata, plan, jobVars, runVars, sandboxId, error,
                 newContainer, enableCritic, sbxVars, cancelVars, obsVars,
                 artifacts, eventCalls, gateway, shell>>

(***************************************************************************)
(* The system                                                              *)
(***************************************************************************)
Worker(maxAttempts) ==
  \/ WorkerStart(maxAttempts) \/ SetRunning \/ EvTaskStarted
  \/ CreateRun \/ CreatePorts \/ CreateWait \/ EvSandboxCreated
  \/ SetSucceeded \/ EvTaskCompleted \/ WorkerCatch \/ EvTaskFailed
  \/ FinallyDestroy \/ AwaitDestroy \/ WorkerFinish

Orchestrator(maxLen) ==
  \/ EvPlanningStarted \/ GeneratePlan(maxLen) \/ StorePlan \/ EvPlanGenerated
  \/ EvExecutionStarted \/ LoopHead \/ RunStep \/ StoreStep \/ EvStepCompleted
  \/ CheckRequired \/ Finalize \/ OrchCatch

Critic(maxSplices) ==
  \/ Evaluate \/ EvCriticEvaluation \/ GenerateCorrection(maxSplices) \/ StoreRevisedPlan
  \/ EvCorrectionApplied

\* Task lifecycle: the worker, the Orchestrator with the Critic enabled (the
\* default) and cancelTask calls, while no sandbox deadline expires and the
\* module is not shut down.
Next ==
  \/ Worker(MaxAttempts)
  \/ Orchestrator(MaxPlanLen)
  \/ Critic(MaxSplices)
  \/ CancelRead(MaxCancels) \/ CancelWrite
  \/ DestroyStop(<<"worker", 0>>)
  \/ DestroyRm(<<"worker", 0>>)

Spec == Init /\ [][Next]_vars

\* Sandbox lifecycle: the worker and the Orchestrator with ENABLE_CRITIC=false,
\* the deferred-destroy timers, module shutdown and every destroy call in flight.
\* After shutdown the worker and the timers take no step (see At); the destroy
\* calls already begun run on.
InitSandbox ==
  /\ status = "queued"
  /\ metadata = ""
  /\ plan = <<>>
  /\ events = <<>>
  /\ artifacts = <<>>
  /\ jobState = "waiting"
  /\ attemptsMade = 0
  /\ pc = "idle"
  /\ sandboxId = ""
  /\ error = ""
  /\ newContainer = 0
  /\ currentPlan = <<>>
  /\ idx = 0
  /\ executedStep = NoStep
  /\ splices = 0
  /\ enableCritic = FALSE
  /\ sandboxes = [s \in SandboxIds |-> 0]
  /\ containers = [c \in ContainerIds |-> "none"]
  /\ timers = {}
  /\ destroys = [c \in Callers |-> IdleCall]
  /\ shutdown = FALSE
  /\ cancelPc = "idle"
  /\ cancelCalls = 0
  /\ eventCalls = [a \in Attempts |-> IdleEventCall]
  /\ gateway = GatewayInit
  /\ shell = IdleShell
  /\ stopRuns = {}
  /\ destroyCalls = 0
  /\ outcome = ""
  /\ cancelled = ""
  /\ pickedUp = ""

NextSandbox ==
  \/ Worker(SbxAttempts)
  \/ Orchestrator(SbxPlanLen)
  \/ TimerFire
  \/ OnModuleDestroy
  \/ \E caller \in Callers : DestroyStop(caller)
  \/ \E caller \in Callers : DestroyRm(caller)

SpecSandbox == InitSandbox /\ [][NextSandbox]_vars

\* One call of OrchestratorService.run, Critic enabled or not, from the moment
\* processTask calls it (first attempt, sandbox created) until processTask has
\* written the task's final status and reaches its finally block.
InitRun ==
  /\ status = "running"
  /\ metadata = ""
  /\ plan = <<>>
  /\ events = <<Event("task_started", ""), Event("sandbox_created", "")>>
  /\ artifacts = <<>>
  /\ jobState = "active"
  /\ attemptsMade = 1
  /\ pc = "evPlanningStarted"
  /\ sandboxId = SandboxIdOf(TaskId)
  /\ error = ""
  /\ newContainer = 1
  /\ currentPlan = <<>>
  /\ idx = 0
  /\ executedStep = NoStep
  /\ splices = 0
  /\ enableCritic \in BOOLEAN
  /\ sandboxes = [s \in SandboxIds |-> 1]
  /\ containers = [c \in ContainerIds |-> IF c = 1 THEN "running" ELSE "none"]
  /\ timers = {1}
  /\ destroys = [c \in Callers |-> IdleCall]
  /\ shutdown = FALSE
  /\ cancelPc = "idle"
  /\ cancelCalls = 0
  /\ eventCalls = [a \in Attempts |-> IdleEventCall]
  /\ gateway = GatewayInit
  /\ shell = IdleShell
  /\ stopRuns = {}
  /\ destroyCalls = 0
  /\ outcome = ""
  /\ cancelled = ""
  /\ pickedUp = "queued"

NextRun ==
  \/ Orchestrator(RunPlanLen)
  \/ Critic(RunSplices)
  \/ SetSucceeded \/ EvTaskCompleted
  \/ WorkerCatch \/ EvTaskFailed

SpecRun == InitRun /\ [][NextRun]_vars

\* One run from the moment generatePlan has returned a plan that passed its
\* validation and whose steps use the shell and file_write tools, Critic
\* disabled, until processTask has appended its closing event.
ArtifactPlans ==
  {p \in SeqsUpTo([id : PlannerIds, tool : RegisteredTools, required : BOOLEAN],
                  ArtPlanLen) : Len(p) > 0}

InitArtifacts ==
  /\ status = "running"
  /\ metadata = ""
  /\ plan = <<>>
  /\ events = <<Event("task_started", ""), Event("sandbox_created", ""),
                Event("planning_started", "")>>
  /\ artifacts = <<>>
  /\ jobState = "active"
  /\ attemptsMade = 1
  /\ pc = "updateTaskPlan"
  /\ sandboxId = SandboxIdOf(TaskId)
  /\ error = ""
  /\ newContainer = 1
  /\ \E raw \in ArtifactPlans : currentPlan = WithDefaults(raw)
  /\ idx = 0
  /\ executedStep = NoStep
  /\ splices = 0
  /\ enableCritic = FALSE
  /\ sandboxes = [s \in SandboxIds |-> 1]
  /\ containers = [c \in ContainerIds |-> IF c = 1 THEN "running" ELSE "none"]
  /\ timers = {1}
  /\ destroys = [c \in Callers |-> IdleCall]
  /\ shutdown = FALSE
  /\ cancelPc = "idle"
  /\ cancelCalls = 0
  /\ eventCalls = [a \in Attempts |-> IdleEventCall]
  /\ gateway = GatewayInit
  /\ shell = IdleShell
  /\ stopRuns = {}
  /\ destroyCalls = 0
  /\ outcome = ""
  /\ cancelled = ""
  /\ pickedUp = "queued"

NextArtifacts ==
  \/ StorePlan \/ EvPlanGenerated \/ EvExecutionStarted
  \/ LoopHead \/ RunStep \/ StoreStep \/ EvStepCompleted
  \/ CheckRequired \/ Finalize
  \/ SetSucceeded \/ EvTaskCompleted

SpecArtifacts == InitArtifacts /\ [][NextArtifacts]_vars

\* The event log under two processing attempts of one job that run at the
\* same time: each attempt's addTaskEvent calls are sequential, the two
\* attempts' queries interleave freely.  The task record starts as createTask
\* wrote it or with events of an earlier attempt.
InitEvents ==
  /\ status = "running"
  /\ metadata = ""
  /\ plan = <<>>
  /\ events \in {<<>>, <<Event("task_started", ""), Event("task_failed", "")>>}
  /\ artifacts = <<>>
  /\ jobState = "active"
  /\ attemptsMade = 2
  /\ pc = "idle"
  /\ sandboxId = ""
  /\ error = ""
  /\ newContainer = 0
  /\ currentPlan = <<>>
  /\ idx = 0
  /\ executedStep = NoStep
  /\ splices = 0
  /\ enableCritic = FALSE
  /\ sandboxes = [s \in SandboxIds |-> 0]
  /\ containers = [c \in ContainerIds |-> "none"]
  /\ timers = {}
  /\ destroys = [c \in Callers |-> IdleCall]
  /\ shutdown = FALSE
  /\ cancelPc = "idle"
  /\ cancelCalls = 0
  /\ eventCalls = [a \in Attempts |-> IdleEventCall]
  /\ gateway = GatewayInit
  /\ shell = IdleShell
  /\ stopRuns = {}
  /\ destroyCalls = 0
  /\ outcome = ""
  /\ cancelled = ""
  /\ pickedUp = ""

NextEvents ==
  \/ \E a \in Attempts : AddTaskEventRead(a, MaxAppends)
  \/ \E a \in Attempts : AddTaskEventWrite(a)

SpecEvents == InitEvents /\ [][NextEvents]_vars

(***************************************************************************)
(* TasksGateway (api/tasks.gateway.ts)                                     *)
(***************************************************************************)
GatewayStep(g) ==
  /\ gateway' = g
  /\ UNCHANGED <<taskVars, jobVars, runVars, workerVars, enableCritic, sbxVars,
                 cancelVars, eventCalls, shell, obsVars>>

\* handleDisconnect: the client is taken out of every set, emptied sets go
HandleDisconnect(c) ==
  /\ c \in gateway.alive
  /\ GatewayStep([gateway EXCEPT
        !.alive = @ \ {c},
        !.subs = [t \in StreamTasks |-> @[t] \ {c}],
        !.keys = {t \in @ : gateway.subs[t] \ {c} # {}}])

\* handleSubscribeTask: create the set when the key is missing, add the client
HandleSubscribeTask(c, t) ==
  /\ c \in gateway.alive
  /\ GatewayStep([gateway EXCEPT
        !.keys = @ \cup {t},
        !.subs[t] = @ \cup {c}])

\* handleUnsubscribeTask: delete the client, delete the set when it is empty
HandleUnsubscribeTask(c, t) ==
  /\ c \in gateway.alive
  /\ GatewayStep([gateway EXCEPT
        !.subs[t] = @ \ {c},
        !.keys = IF t \in @ /\ gateway.subs[t] \ {c} = {} THEN @ \ {t} ELSE @])

\* addTaskEvent of call a for task t, up to the awaited UPDATE of the events
PersistTaskEvent(a, t, maxBroadcasts) ==
  /\ gateway.awaited[a] = <<>>
  /\ gateway.persisted["t1"] + gateway.persisted["t2"] < maxBroadcasts
  /\ LET n == gateway.persisted[t] + 1
     IN  GatewayStep([gateway EXCEPT
           !.persisted[t] = n,
           !.awaited[a] = <<t, n>>])

\* addTaskEvent of call a after its UPDATE has returned:
\* broadcastTaskEvent(taskId, event) emits to every client id of the task's set
BroadcastTaskEvent(a) ==
  /\ gateway.awaited[a] # <<>>
  /\ LET t == gateway.awaited[a][1]
          to == IF t \in gateway.keys THEN gateway.subs[t] ELSE {}
     IN  GatewayStep([gateway EXCEPT
           !.awaited[a] = <<>>,
           !.emitted = [c \in Clients |->
                          IF c \in to THEN Append(@[c], gateway.awaited[a]) ELSE @[c]]])

\* The gateway alone: clients subscribe, unsubscribe and disconnect while the
\* addTaskEvent calls of two attempts persist and broadcast events of two tasks.
InitGateway == InitEvents /\ events = <<>>

NextGateway ==
  \/ \E c \in Clients : HandleDisconnect(c)
  \/ \E c \in Clients, t \in StreamTasks : HandleSubscribeTask(c, t)
  \/ \E c \in Clients, t \in StreamTasks : HandleUnsubscribeTask(c, t)
  \/ \E a \in Attempts, t \in StreamTasks : PersistTaskEvent(a, t, MaxBroadcasts)
  \/ \E a \in Attempts : BroadcastTaskEvent(a)

SpecGateway == InitGateway /\ [][NextGateway]_vars

(***************************************************************************)
(* Shell execution: POST /execute of the sandbox's shell server, called by *)
(* SandboxManagerService.executeShell for ShellTool.run                    *)
(***************************************************************************)
ShellStep(sh) ==
  /\ shell' = sh
  /\ UNCHANGED <<taskVars, jobVars, runVars, workerVars, enableCritic, sbxVars,
                 cancelVars, eventCalls, gateway, obsVars>>

\* stdout.length > maxOutputLength
\*   ? stdout.substring(0, maxOutputLength) + '\n... (output truncated)' : stdout
Truncate(text) ==
  IF text.len > maxOutputLength
    THEN [text EXCEPT !.len = maxOutputLength, !.marked = TRUE]
    ELSE text

\* a || b on strings: b when a is the empty string
OrElse(a, b) == IF a.len = 0 /\ ~a.marked THEN b ELSE a

\* error.message of a rejected exec: "Command failed: " + command + "\n" + stderr
ErrorMessage(command, stderr) == Text("message", 16 + command + 1 + stderr.len)

\* execAsync(command, {timeout, maxBuffer: 10MB, ...}): the command has written
\* so characters to stdout and se to stderr when it exits or is killed
ExecAsync(oc, command, so, se) ==
  /\ shell.pc = "idle"
  /\ ShellStep([shell EXCEPT
        !.pc = "ran",
        !.outcome = oc,
        !.command = command,
        !.stdout = Text("stdout", so),
        !.stderr = Text("stderr", se)])

\* the rest of the /execute handler: the response for a resolved exec, for a
\* killed one (408) and for a non-zero exit code
PostExecute ==
  /\ shell.pc = "ran"
  /\ ShellStep([shell EXCEPT
        !.pc = "responded",
        !.res =
          CASE shell.outcome = "success" ->
                 [success |-> TRUE, exitCode |-> 0,
                  stdout |-> Truncate(shell.stdout),
                  stderr |-> Truncate(shell.stderr)]
            [] shell.outcome = "timeout" ->
                 [success |-> FALSE, exitCode |-> -1,
                  stdout |-> OrElse(shell.stdout, EmptyText),
                  stderr |-> OrElse(shell.stderr, EmptyText)]
            [] OTHER ->
                 [success |-> FALSE, exitCode |-> 1,
                  stdout |-> OrElse(shell.stdout, EmptyText),
                  stderr |-> OrElse(shell.stderr,
                                    ErrorMessage(shell.command, shell.stderr))]])

\* executeShell parses the response body; ShellTool.run returns
\* output: result.stdout || '' and metadata.stderr: result.stderr
ShellToolRun ==
  /\ shell.pc = "responded"
  /\ ShellStep([shell EXCEPT
        !.pc = "returned",
        !.tool = [success |-> shell.res.success,
                  output |-> OrElse(shell.res.stdout, EmptyText),
                  stderr |-> shell.res.stderr]])

\* One shell execution: any outcome, any output lengths around the limit.
InitShell == InitEvents /\ events = <<>>

NextShell ==
  \/ \E oc \in ExecOutcomes, command \in 1..MaxCommandLen,
        so \in OutputLengths, se \in OutputLengths :
          ExecAsync(oc, command, so, se)
  \/ PostExecute
  \/ ShellToolRun

SpecShell == InitShell /\ [][NextShell]_vars

TypeOK ==
  /\ status \in TaskStatus
  /\ jobState \in {"waiting", "active", "completed", "failed"}
  /\ attemptsMade \in 0..attempts
  /\ \A s \in SandboxIds : sandboxes[s] \in 0..attempts
  /\ idx \in 0..Len(currentPlan)

(***************************************************************************)
(* Properties                                                              *)
(***************************************************************************)
JobFinished == jobState \in {"completed", "failed"}

NoDuplicateIds(p) == \A j, k \in 1..Len(p) : p[j].id = p[k].id => j = k

LastOf(log, types) ==
  LET at == {k \in 1..Len(log) : log[k].type \in types}
  IN  IF at = {} THEN "" ELSE log[CHOOSE k \in at : \A j \in at : j <= k].type

\* C1: the persisted status changes only along queued->running,
\* running->{succeeded, failed, cancelled} and queued->cancelled; in particular
\* a terminal status (succeeded, failed, cancelled) is never overwritten and
\* the status never returns to queued.
C1_TerminalStatusKept ==
  [][/\ status \in TerminalStatus => status' = status
     /\ status' = "queued" => status = "queued"]_vars

\* C2: when cancelTask wrote cancelled over the status running while the
\* worker was processing the task, the status is cancelled once the job has
\* finished.
C2_CancelWhileRunningStays ==
  (cancelled = "running" /\ JobFinished) => status = "cancelled"

\* C3: the event log of a finished job whose task became running holds exactly
\* one sandbox_created and, after it, exactly one sandbox_destroyed.
C3_OneSandboxCreatedThenDestroyed ==
  (JobFinished /\ Count(events, "task_started") > 0) =>
     /\ Count(events, "sandbox_created") = 1
     /\ Count(events, "sandbox_destroyed") = 1
     /\ \A j, k \in 1..Len(events) :
          (events[j].type = "sandbox_created" /\ events[k].type = "sandbox_destroyed")
             => j < k

\* C4: when processTask is about to settle on a path that got as far as the
\* sandbox (orchestrator success, orchestrator exception, sandbox create
\* failure) the worker has called destroy for the sandbox id exactly once and
\* the call has settled; however that call settled, the outcome of the job and
\* the task's status are the ones the try/catch blocks decided.
C4_DestroyOnceAndHarmless ==
  (pc = "finish" /\ sandboxId = SandboxIdOf(TaskId)) =>
     /\ destroyCalls = 1
     /\ destroys[<<"worker", 0>>].pc = "done"
     /\ LastOf(events, {"task_completed", "task_failed"}) = "task_completed"
          => (outcome = "completed" /\ status = "succeeded")
     /\ LastOf(events, {"task_completed", "task_failed"}) = "task_failed"
          => (outcome = "failed" /\ status = "failed")

\* C4 witness: the run succeeded, the destroy call of the finally block threw,
\* and processTask is about to settle
C4_Witness ==
  /\ pc = "finish"
  /\ destroys[<<"worker", 0>>].result = "threw"
  /\ outcome = "completed"

\* C5: when run has returned, every step of the persisted plan is completed,
\* failed or pending, and a step is pending only if the loop was aborted
\* (execution_stopped) at a step before it; idx is the index the loop was left
\* at.  Stated for plans without a duplicate id, which is the subject of C6.
C5_PendingOnlyAfterAbort ==
  (pc = "setSucceeded" /\ NoDuplicateIds(plan)) =>
     \A k \in 1..Len(plan) :
        /\ plan[k].status \in {"completed", "failed", "pending"}
        /\ plan[k].status = "pending" =>
             (Count(events, "execution_stopped") > 0 /\ k > idx + 1)

\* C6: no two steps of the plan, in memory or persisted, share an id
C6_UniqueStepIds == NoDuplicateIds(currentPlan) /\ NoDuplicateIds(plan)

\* C7: docker stop is run on the container of a sandbox by at most one
\* destroy call
C7_StopRunByOneCall ==
  [][\A caller \in Callers :
       (destroys[caller].pc = "stop" /\ destroys'[caller].pc # "stop")
          => destroys[caller].cid \notin stopRuns]_vars

\* C8: when a destroy call finishes, thrown or not, the entry it set out to
\* destroy is no longer in the lookup table
C8_EntryGoneWhenDestroyEnds ==
  [][\A caller \in Callers :
       (destroys[caller].pc \in {"stop", "rm"} /\ destroys'[caller].pc = "done")
          => sandboxes'[SandboxIdOf(TaskId)] # destroys[caller].cid]_vars

\* C9: when create raises after docker run started the container (ports
\* missing or health probes exhausted), that container is no longer alive and
\* the table holds no entry for it
C9_FailedCreateTornDown ==
  (/\ pc = "workerCatch"
   /\ error \in {"Failed to get mapped ports", "Sandbox services failed to start in time"})
    => (~Live(newContainer) /\ sandboxes[SandboxIdOf(TaskId)] # newContainer)

\* C10: the destroy call made by the timer of one create only ever takes down
\* the sandbox that create registered
C10_TimerDestroysOwnSandbox ==
  \A g \in ContainerIds :
     destroys[<<"timer", g>>].pc \in {"stop", "rm"} => destroys[<<"timer", g>>].cid = g

\* C11: executeStep always returns a step record and never throws into run:
\* whatever the tool name and whatever the handler does, run goes on to
\* updateStep with the same step, completed or failed; a failed step carries
\* result.success = false and an error text; a step whose tool is not
\* registered is failed.
C11_ExecutorAlwaysReturns ==
  [][(pc = "executeStep" /\ pc' # "executeStep") =>
        /\ pc' = "updateStep"
        /\ executedStep'.id = currentPlan[idx + 1].id
        /\ executedStep'.status \in {"completed", "failed"}
        /\ executedStep'.result.ran
        /\ executedStep'.status = "failed" =>
             (~executedStep'.result.success /\ executedStep'.result.error # "")
        /\ executedStep'.tool \notin RegisteredTools =>
             executedStep'.status = "failed"]_vars

\* C11 witness: the handler of a registered tool reported a failure or threw,
\* and executeStep returned the failed step
C11_Witness ==
  /\ pc = "updateStep"
  /\ executedStep.tool \in RegisteredTools
  /\ executedStep.status = "failed"
  /\ executedStep.result.error = "error text"

AllCompleted(p) == \A k \in 1..Len(p) : p[k].status = "completed"

FailedRequired == executedStep.status = "failed" /\ executedStep.required

\* the loop and the run are over
RunReturned == pc \in {"setSucceeded", "evTaskCompleted"}

\* C13: once the executed step failed with required not false, the loop does
\* not go on to another step; when the loop is left, the last of the
\* step_started and execution_stopped events is the execution_stopped of that
\* step, every step behind it in the persisted plan is pending, and the run
\* returns with task_completed_with_failures and without task_succeeded.
C13_RequiredFailureStops ==
  /\ pc \in {"loop", "executeStep"} => ~FailedRequired
  /\ (FailedRequired /\ (pc = "final" \/ RunReturned)) =>
       /\ LastOf(events, {"step_started", "execution_stopped"}) = "execution_stopped"
       /\ events[Len(events) - (IF pc = "final" THEN 0 ELSE 1)]
            = Event("execution_stopped", executedStep.id)
       /\ \A k \in (idx + 2)..Len(plan) : plan[k].status = "pending"
       /\ RunReturned =>
            /\ Count(events, "task_completed_with_failures") = 1
            /\ Count(events, "task_succeeded") = 0

\* C13 witness: run returned after a required step failed with a step behind it
C13_Witness ==
  /\ RunReturned
  /\ FailedRequired
  /\ Len(plan) > idx + 1

\* position in the log of the n-th event of a type (0 when there is none)
NthIndex(log, type, n) ==
  LET at == {k \in 1..Len(log) :
               log[k].type = type
               /\ Cardinality({i \in 1..k : log[i].type = type}) = n}
  IN  IF at = {} THEN 0 ELSE CHOOSE k \in at : TRUE

\* the j-th step of the plan was executed, failed, and has required = false
NonRequiredFailed(j) ==
  /\ j \in 1..Len(currentPlan)
  /\ ~currentPlan[j].required
  /\ NthIndex(events, "step_completed", j) # 0
  /\ events[NthIndex(events, "step_completed", j)].status = "failed"

\* the required check for the j-th step is done
CheckedPast(j) == idx > j \/ (idx = j /\ pc # "loop")

\* C14: when the j-th step failed with required = false, no execution_stopped
\* is appended for it: once its required check is done the next step, if
\* there is one, has been started and no execution_stopped lies between the
\* two; the loop is not left at that step (the index has moved past it when
\* the loop is over); the run returns with task_completed_with_failures and
\* the worker sets the status succeeded.
C14_NonRequiredFailureGoesOn ==
  \A j \in 1..Len(currentPlan) :
     NonRequiredFailed(j) =>
        /\ (CheckedPast(j) /\ j < Len(currentPlan)) =>
              /\ NthIndex(events, "step_started", j + 1) # 0
              /\ \A k \in NthIndex(events, "step_completed", j)
                            ..NthIndex(events, "step_started", j + 1) :
                    events[k].type # "execution_stopped"
        /\ (CheckedPast(j) /\ j = Len(currentPlan)) =>
              \A k \in NthIndex(events, "step_completed", j)..Len(events) :
                 events[k].type # "execution_stopped"
        /\ (pc = "final" \/ RunReturned) => idx >= j
        /\ RunReturned =>
              /\ Count(events, "task_completed_with_failures") = 1
              /\ Count(events, "task_succeeded") = 0
        /\ pc \in {"evTaskCompleted", "finally"} => status = "succeeded"

\* C14 witness: the first step failed with required = false, the second was
\* started, and processTask has written the final status
C14_Witness ==
  /\ pc = "finally"
  /\ NonRequiredFailed(1)
  /\ NthIndex(events, "step_started", 2) # 0

\* C15: a run whose planner produced no step (an empty list, or no plan at
\* all) is a planning failure: when processTask reaches its finally block the
\* log holds orchestration_failed and neither execution_started nor
\* task_succeeded, and the status is failed.
C15_EmptyPlanFails ==
  (pc = "finally" /\ currentPlan = <<>>) =>
     /\ Count(events, "orchestration_failed") = 1
     /\ Count(events, "execution_started") = 0
     /\ Count(events, "task_succeeded") = 0
     /\ status = "failed"

\* C16: a splice after the step at index i leaves the steps up to i where they
\* are, puts the corrective steps, in the order returned, right behind them
\* and the former rest of the plan behind those; the loop index never goes
\* back, and every step_started is for the step at the loop index, the first
\* for that position: so the corrective steps are started before the original
\* steps that were behind i, and no step up to i is executed again.
C16_SpliceOrder ==
  [][/\ idx' >= idx
     /\ (pc = "generateCorrection" /\ currentPlan' # currentPlan) =>
          /\ idx' = idx
          /\ \E raw \in SeqsUpTo(RawCriticSteps, Len(currentPlan') - Len(currentPlan)) :
               currentPlan' = SubSeq(currentPlan, 1, idx + 1)
                                \o WithDefaults(raw)
                                \o SubSeq(currentPlan, idx + 2, Len(currentPlan))
     /\ (Len(events') > Len(events)
         /\ events'[Len(events')].type = "step_started") =>
          /\ events'[Len(events')].step = currentPlan[idx + 1].id
          /\ Count(events', "step_started") = idx + 1]_vars

\* C16 witness: two corrective steps were spliced in behind the first of two
\* planner steps, both were executed, and the second planner step is started
C16_Witness ==
  /\ pc = "executeStep"
  /\ splices = 2
  /\ Len(currentPlan) = 4
  /\ idx = 3
  /\ currentPlan[2].id = "correction-1"
  /\ currentPlan[3].id = "correction-1"
  /\ currentPlan[4].id \in PlannerIds

\* C17: every step of the plan, the Planner's or the Critic's, passed the
\* validation (an id and a registered tool), and the step that step_started
\* has just announced names a registered tool.
C17_EveryStepValidated ==
  /\ \A k \in 1..Len(currentPlan) :
       currentPlan[k].id # "" /\ currentPlan[k].tool \in RegisteredTools
  /\ pc = "executeStep" => currentPlan[idx + 1].tool \in RegisteredTools

\* C18: a failure of the Critic's evaluation or of its correction does not
\* end the run: from the evaluation or the correction the run goes on inside
\* the critic block or to the check of the required flag, never to run's
\* catch; when it goes to that check directly, no event was added, the plan in
\* memory and the stored plan are as before and the executed step and the
\* loop index are those the check would see with the critic disabled; and
\* correction_applied events exist only when corrective steps were spliced in.
C18_CriticFailureNonFatal ==
  [][/\ pc \in {"evaluate", "generateCorrection"} =>
          /\ pc' \in {"checkRequired", "evCriticEvaluation", "updateRevisedPlan"}
          /\ error' = error
          /\ status' = status
          /\ pc' = "checkRequired" =>
               /\ currentPlan' = currentPlan
               /\ plan' = plan
               /\ events' = events
               /\ executedStep' = executedStep
               /\ idx' = idx
     /\ Count(events', "correction_applied") <= splices']_vars

\* C18 witness: the evaluation was off track, the correction gave nothing, and
\* the run is at the check of the required flag with the plan it had
C18_Witness ==
  /\ pc = "checkRequired"
  /\ enableCritic
  /\ events[Len(events)].type = "critic_evaluation"
  /\ splices = 0
  /\ Count(events, "correction_applied") = 0

\* C19: with the critic disabled the run never enters the critic block and
\* appends no critic_evaluation and no correction_applied event, the plan in
\* memory is never changed after the Planner returned it, and every
\* step_started is for the step of that plan at the loop index.
C19_CriticDisabledPlanAsPlanned ==
  [][~enableCritic =>
       /\ pc' \notin {"evaluate", "evCriticEvaluation", "generateCorrection",
                      "updateRevisedPlan", "evCorrectionApplied"}
       /\ Count(events', "critic_evaluation") = 0
       /\ Count(events', "correction_applied") = 0
       /\ pc # "generatePlan" => currentPlan' = currentPlan
       /\ (Len(events') > Len(events)
           /\ events'[Len(events')].type = "step_started") =>
            events'[Len(events')].step = currentPlan[idx + 1].id]_vars

\* C19 witness: with the critic disabled both steps of a two-step plan were
\* executed and the loop has ended
C19_Witness ==
  /\ ~enableCritic
  /\ pc = "final"
  /\ Len(currentPlan) = 2
  /\ idx = 2
  /\ Count(events, "step_completed") = 2

\* C20: with the critic enabled, every step_completed that is followed by
\* another step_started has, between the two, a critic_evaluation event for
\* the completed step, whatever the verdict was.
C20_EvaluationAfterEveryStep ==
  enableCritic =>
    \A n \in 1..Count(events, "step_completed") :
      Count(events, "step_started") > n =>
        \E k \in (NthIndex(events, "step_completed", n) + 1)
                   ..(NthIndex(events, "step_started", n + 1) - 1) :
          /\ events[k].type = "critic_evaluation"
          /\ events[k].step = events[NthIndex(events, "step_completed", n)].step

\* the messages of the exceptions SandboxManagerService.create throws
CreateErrors ==
  {"docker run failed", "Failed to get mapped ports",
   "Sandbox services failed to start in time"}

\* C21: when the first attempt's sandbox creation has failed and the catch
\* block of processTask has run, the event log holds an orchestration_failed
\* event and no planning_started event, and the status is failed.
C21_CreateFailureRecorded ==
  (pc = "finally" /\ attemptsMade = 1 /\ error \in CreateErrors) =>
    /\ Count(events, "orchestration_failed") > 0
    /\ Count(events, "planning_started") = 0
    /\ status = "failed"

C23_NoRetryAfterPlanningFailure ==
  metadata = "Plan generation failed" =>
    /\ status = "failed"
    /\ Count(events, "task_started") = 1

\* C24: in an attempt that began while the task's status was cancelled, the
\* worker does not set the status to running, starts no container for a
\* sandbox and does not enter the Orchestrator's run.
C24_CancelledJobSkipped ==
  pickedUp = "cancelled" =>
    /\ status # "running"
    /\ newContainer = 0
    /\ pc \notin {"evPlanningStarted", "generatePlan"}

\* C25: whenever a cancelTask call has written the status cancelled, the
\* status it replaced was queued or running; a succeeded, failed or cancelled
\* task is never rewritten by cancelTask.
C25_CancelWritesOnLiveTask ==
  cancelled \in {"", "queued", "running"}

\* C26: while the status is the cancelled that a cancelTask call wrote over
\* running, the run appends no step_started and no task_succeeded event.
C26_NoStepAfterCancel ==
  [][(status = "cancelled" /\ cancelled = "running" /\ Len(events') > Len(events)) =>
       events'[Len(events')].type \notin {"step_started", "task_succeeded"}]_vars

\* C27: every event of the task's log has a type of the closed set
\* task_started, sandbox_created, planning_started, plan_generated,
\* execution_started, step_started, step_completed, critic_evaluation,
\* correction_applied, execution_stopped, task_succeeded,
\* task_completed_with_failures, task_failed, orchestration_failed,
\* sandbox_destroyed.
C27_EventTypesClosed ==
  \A k \in 1..Len(events) :
    events[k].type \in
      {"task_started", "sandbox_created", "planning_started", "plan_generated",
       "execution_started", "step_started", "step_completed",
       "critic_evaluation", "correction_applied", "execution_stopped",
       "task_succeeded", "task_completed_with_failures", "task_failed",
       "orchestration_failed", "sandbox_destroyed"}

\* C28: once the status is succeeded, failed or cancelled, no event is
\* appended to the log and neither the stored plan nor the status changes.
C28_TerminalRecordFrozen ==
  [][(status \in TerminalStatus) =>
       (events' = events /\ plan' = plan /\ status' = status)]_vars

\* C29: the stored plan is rewritten (updateTaskPlan, updateStep) only while
\* the task's status is running.
C29_PlanWrittenWhileRunning ==
  [][(plan' # plan) => (status = "running")]_vars

\* C30: when the run has returned and the stored plan holds a completed step
\* whose result carries artifacts, the task's artifact list is not empty.
C30_ArtifactsOfCompletedSteps ==
  (pc \in {"setSucceeded", "evTaskCompleted", "finally"}
   /\ \E k \in 1..Len(plan) :
        plan[k].status = "completed" /\ plan[k].result.artifacts > 0) =>
    Len(artifacts) > 0

\* C31: onModuleDestroy has called destroy for the sandbox that was in the
\* lookup table at shutdown, and it completes without raising: the destroy it
\* awaits does not reject into it.
C31_ShutdownNeverRaises ==
  shutdown => destroys[<<"shutdown", 0>>].result # "threw"

\* C32: whenever the stored status is failed, the record carries an error
\* text (metadata.error).
C32_FailedHasErrorText ==
  status = "failed" => metadata # ""

\* C33: the step executeStep returns has status completed if and only if its
\* result has success true, and failed otherwise; it carries a result, with
\* the artifacts of a successful file_write, and it is the input step in
\* every other field (id, tool, required).
C33_StatusFollowsSuccess ==
  [][(pc = "executeStep" /\ pc' = "updateStep") =>
        /\ executedStep'.result.ran
        /\ executedStep'.status =
             (IF executedStep'.result.success THEN "completed" ELSE "failed")
        /\ executedStep' = [currentPlan[idx + 1] EXCEPT
                              !.status = executedStep'.status,
                              !.result = executedStep'.result]
        /\ executedStep'.result.success =>
             executedStep'.result.artifacts =
               (IF currentPlan[idx + 1].tool \in ArtifactTools THEN 1 ELSE 0)]_vars

\* C33 witness: a file_write step whose handler succeeded was returned
\* completed, with its artifact
C33_Witness ==
  /\ pc = "updateStep"
  /\ executedStep.tool = "file_write"
  /\ executedStep.status = "completed"
  /\ executedStep.result.success
  /\ executedStep.result.artifacts = 1

\* C34: the execution history handed to the Critic after the step at index i
\* holds the just-executed step and every earlier executed step, each with
\* its completed or failed status: i + 1 steps, the last of them the executed
\* step.
C34_HistoryHoldsExecutedSteps ==
  pc = "evaluate" =>
    /\ Len(ExecutionHistory) = idx + 1
    /\ ExecutionHistory[idx + 1].id = executedStep.id
    /\ ExecutionHistory[idx + 1].status = executedStep.status

\* position of the task_started that opened the attempt event k belongs to
\* (0 when no task_started precedes k)
AttemptStart(k) ==
  LET at == {j \in 1..k : events[j].type = "task_started"}
  IN  IF at = {} THEN 0 ELSE CHOOSE j \in at : \A i \in at : i <= j

\* an event of the type lies between the start of k's attempt and k
EarlierInAttempt(k, type) ==
  \E j \in AttemptStart(k)..(k - 1) : j >= 1 /\ events[j].type = type

\* C35: within each processing attempt recorded in the log, task_started
\* comes before sandbox_created, that before planning_started, then
\* plan_generated, then execution_started, and these before every
\* step_started; each step_completed directly follows the step_started of
\* its step; a step_started is appended only when the step started before it
\* has its step_completed; critic events come after the step_completed of
\* the step they are about and before the next step_started.
C35_EventsInOrder ==
  \A k \in 1..Len(events) :
    /\ events[k].type = "sandbox_created" => EarlierInAttempt(k, "task_started")
    /\ events[k].type = "planning_started" => EarlierInAttempt(k, "sandbox_created")
    /\ events[k].type = "plan_generated" => EarlierInAttempt(k, "planning_started")
    /\ events[k].type = "execution_started" => EarlierInAttempt(k, "plan_generated")
    /\ events[k].type = "step_started" =>
         /\ EarlierInAttempt(k, "execution_started")
         /\ \A j \in AttemptStart(k)..(k - 1) :
              (j >= 1 /\ events[j].type = "step_started") =>
                /\ events[j + 1].type = "step_completed"
                /\ j + 1 < k
    /\ events[k].type = "step_completed" =>
         /\ k > 1
         /\ events[k - 1].type = "step_started"
         /\ events[k - 1].step = events[k].step
    /\ events[k].type \in {"critic_evaluation", "correction_applied"} =>
         /\ k > 1
         /\ events[k - 1].type \in {"step_completed", "critic_evaluation"}
         /\ events[k - 1].step = events[k].step

\* C35 witness: a second attempt of the job has started its first step after
\* the first attempt had got as far as planning
C35_Witness ==
  /\ Count(events, "task_started") = 2
  /\ Count(events, "planning_started") = 2
  /\ pc = "executeStep"
  /\ events[Len(events)].type = "step_started"

\* addTaskEvent calls of the concurrent attempts that have completed
EventsWritten == eventCalls["attempt-1"].done + eventCalls["attempt-2"].done

\* C36: whatever the interleaving of the attempts' addTaskEvent calls, every
\* call that has completed left its event in the stored log: with no call in
\* flight the log has grown by one event for each completed call.
C36_NoEventLost ==
  (\A a \in Attempts : eventCalls[a].pc = "idle") =>
    Count(events, "task_started") + Count(events, "sandbox_created")
      + Count(events, "planning_started")
      = Count(events, "task_failed") + EventsWritten

\* C37: when the run has returned, every step_completed event reports the
\* status completed, no execution_stopped was appended and the steps of the
\* plan carry distinct ids, the stored plan shows every step completed and
\* the run's closing event is task_succeeded.
C37_AllCompletedMeansSucceeded ==
  (/\ RunReturned
   /\ Count(events, "execution_stopped") = 0
   /\ Count(events, "step_completed") = Len(currentPlan)
   /\ \A k \in 1..Len(events) :
        events[k].type = "step_completed" => events[k].status = "completed"
   /\ \A j, k \in 1..Len(currentPlan) :
        currentPlan[j].id = currentPlan[k].id => j = k) =>
    /\ AllCompleted(plan)
    /\ Count(events, "task_succeeded") = 1

\* depth of the corrections of a run: 0 without a correction, 1 when only
\* steps of the Planner were corrected, one more for every correction applied
\* after a step that was itself a corrective step
CorrectionDepth ==
  IF Count(events, "correction_applied") = 0 THEN 0
  ELSE 1 + Cardinality({k \in 1..Len(events) :
                          /\ events[k].type = "correction_applied"
                          /\ events[k].step \in CriticIds \ PlannerIds})

\* C38: the depth of corrections is capped by the run itself: corrective
\* steps stop being corrected before the Critic's answers run out, so the
\* depth stays below the number of corrective steps the Critic is ready to
\* return.
C38_CorrectionDepthCapped ==
  CorrectionDepth < RunSplices

\* C39 (subscription map): after every subscribe, unsubscribe, disconnect or
\* broadcast the map holds no empty set and no disconnected client, and a
\* broadcast emits its event to exactly the clients subscribed to the event's
\* task at that moment.
C39_SubscriptionMapConsistent ==
  [][/\ \A t \in StreamTasks : (t \in gateway'.keys) <=> (gateway'.subs[t] # {})
     /\ \A t \in StreamTasks : gateway'.subs[t] \subseteq gateway'.alive
     /\ \A a \in Attempts :
          (gateway.awaited[a] # <<>> /\ gateway'.awaited[a] = <<>>) =>
            \A c \in Clients :
              gateway'.emitted[c] =
                (IF c \in gateway.subs[gateway.awaited[a][1]]
                   THEN Append(gateway.emitted[c], gateway.awaited[a])
                   ELSE gateway.emitted[c])
     /\ (\A a \in Attempts : gateway.awaited[a] = <<>> \/ gateway'.awaited[a] # <<>>)
          => gateway'.emitted = gateway.emitted]_vars

\* C39: the task_event messages a client has received for one task are in the
\* order in which the events were persisted: an event persisted later is never
\* emitted before one persisted earlier.
C39_BroadcastsInPersistedOrder ==
  \A c \in Clients :
    \A i, j \in 1..Len(gateway.emitted[c]) :
      (i < j /\ gateway.emitted[c][i][1] = gateway.emitted[c][j][1]) =>
        gateway.emitted[c][i][2] < gateway.emitted[c][j][2]

\* C40: the stdout and stderr that ShellTool.run returns for an execution,
\* whatever its outcome (success, non-zero exit, timeout), hold at most
\* maxOutputLength characters of the command's output: an output of at most
\* maxOutputLength characters is returned unchanged, a longer one is cut to its
\* first maxOutputLength characters and carries the truncation marker.
C40_OutputTruncated ==
  shell.pc = "returned" =>
    \A stream \in {"stdout", "stderr"} :
      LET raw == IF stream = "stdout" THEN shell.stdout ELSE shell.stderr
          ret == IF stream = "stdout" THEN shell.tool.output ELSE shell.tool.stderr
      IN  /\ ret.len <= maxOutputLength
          /\ ret.src = raw.src =>
                /\ raw.len <= maxOutputLength => ret = raw
                /\ raw.len > maxOutputLength =>
                      (ret.len = maxOutputLength /\ ret.marked)

====
